---- MODULE Spec2Model ----
(***************************************************************************)
(* Model of the image upload / enrichment / deletion pipeline:             *)
(*   functions_http.py        upload_image, delete_image,                  *)
(*                            get_images_metadata, get_image_metadata      *)
(*   functions_cloud_event.py process_image_for_labels,                    *)
(*                            delete_image_metadata                        *)
(*   main.py                  the earlier revision of the same handlers    *)
(*                                                                         *)
(* A Python str is a sequence of one-character strings where the code      *)
(* inspects or rewrites it (file names, paths, document ids, sizes) and a  *)
(* sequence of opaque tokens elsewhere (user ids, mime types, messages).   *)
(* A dict is a function whose DOMAIN is the set of keys present, so        *)
(* dict.get(k) is None exactly when k is outside the DOMAIN.               *)
(***************************************************************************)
EXTENDS Integers, Sequences, FiniteSets, TLC

\* ------------------------------------------------------------------------
\* Python values
\* ------------------------------------------------------------------------

\* Python's None where it is stored as a value.
None == <<"None">>

\* bool(x) of a str-or-None value.
Truthy(x) == x # None /\ x # <<>>

\* dict.get(key)
Get(d, key) == IF key \in DOMAIN d THEN d[key] ELSE None

\* str.replace(old, new) for one-character old and new.
Replace(s, old, new) == [i \in 1..Len(s) |-> IF s[i] = old THEN new ELSE s[i]]

\* str.endswith(c) for a one-character suffix.
EndsWith(s, c) == Len(s) > 0 /\ s[Len(s)] = c

\* str.startswith(t) for a one-token prefix.
StartsWith(s, t) == Len(s) > 0 /\ s[1] = t

Digits == <<"0", "1", "2", "3", "4", "5", "6", "7", "8", "9">>

IsDigit(c) == \E i \in 1..Len(Digits) : Digits[i] = c

DigitVal(c) == (CHOOSE i \in 1..Len(Digits) : Digits[i] = c) - 1

\* int(s) succeeds on a non-empty run of decimal digits.
IntParses(s) == Len(s) > 0 /\ \A i \in 1..Len(s) : IsDigit(s[i])

RECURSIVE IntOf(_)
IntOf(s) == IF s = <<>> THEN 0
            ELSE 10 * IntOf(SubSeq(s, 1, Len(s) - 1)) + DigitVal(s[Len(s)])

\* ------------------------------------------------------------------------
\* config.py
\* ------------------------------------------------------------------------

ALLOWED_IMAGE_TYPES ==
    { <<"image/jpeg">>, <<"image/png">>, <<"image/bmp">>,
      <<"image/webp">>, <<"image/x-icon">>, <<"image/tiff">> }

\* main.py's upload_image carries its own list.
allowed_types == { <<"image/jpeg">>, <<"image/png">>, <<"image/gif">> }

\* ------------------------------------------------------------------------
\* Document ids and stored paths
\* ------------------------------------------------------------------------

\* doc_id = file_name.replace("/", "_")
\* The path itself taken as document id.
DocIdOfPathUnchanged(file_name) == file_name

DocId(file_name) == Replace(file_name, "/", "_")

\* f"gs://{bucket_name}/{file_name}"
ImageUri(bucket_name, file_name) ==
    <<"g", "s", ":", "/", "/">> \o bucket_name \o <<"/">> \o file_name

\* werkzeug's secure_filename on ASCII input: path separators become
\* blanks, the blank-separated words are joined with "_", every character
\* outside [A-Za-z0-9_.-] is dropped, and leading and trailing "." and "_"
\* are stripped.
SafeChars == { "a", "b", "c", "x", "y", "p", "n", "g", "_", ".", "-" } \cup
             { Digits[i] : i \in 1..Len(Digits) }

RECURSIVE LStrip(_, _)
LStrip(s, cs) == IF s # <<>> /\ Head(s) \in cs THEN LStrip(Tail(s), cs) ELSE s

RECURSIVE RStrip(_, _)
RStrip(s, cs) == IF s # <<>> /\ s[Len(s)] \in cs
                 THEN RStrip(SubSeq(s, 1, Len(s) - 1), cs) ELSE s

Strip(s, cs) == RStrip(LStrip(s, cs), cs)

\* "_".join(s.split()) for s already stripped of outer blanks.
RECURSIVE JoinWords(_)
JoinWords(s) ==
    IF s = <<>> THEN <<>>
    ELSE IF Head(s) = " "
         THEN IF Len(s) > 1 /\ s[2] = " " THEN JoinWords(Tail(s))
              ELSE <<"_">> \o JoinWords(Tail(s))
         ELSE <<Head(s)>> \o JoinWords(Tail(s))

IsSafeChar(c) == c \in SafeChars

secure_filename(filename) ==
    LET blanks == Replace(filename, "/", " ")
        joined == JoinWords(Strip(blanks, {" "}))
        kept == SelectSeq(joined, IsSafeChar)
    IN Strip(kept, {".", "_"})

\* datetime.datetime.now().strftime("%Y%m%d%H%M%S") for the second t of the
\* modelled interval.
Strftime(t) ==
    <<"2", "0", "2", "5", "0", "5", "1", "3", "1", "0", "3", "0", "0">>
        \o <<Digits[t + 1]>>

\* destination_blob_name = f"uploads/{timestamp}_{safe_filename}"
DestinationBlobName(t, filename) ==
    <<"u", "p", "l", "o", "a", "d", "s", "/">> \o Strftime(t) \o <<"_">>
        \o secure_filename(IF filename = <<>> THEN
                             <<"u", "p", "l", "o", "a", "d", "e", "d", "_",
                               "f", "i", "l", "e">>
                           ELSE filename)

\* ------------------------------------------------------------------------
\* Storage event timestamps
\* ------------------------------------------------------------------------

\* str.replace(old, new) for a one-character old and any new.
RECURSIVE ReplaceWith(_, _, _)
ReplaceWith(s, old, new) ==
    IF s = <<>> THEN <<>>
    ELSE (IF Head(s) = old THEN new ELSE <<Head(s)>>)
             \o ReplaceWith(Tail(s), old, new)

\* time_created.replace("Z", "+00:00")
NormalizeZ(s) == ReplaceWith(s, "Z", <<"+", "0", "0", ":", "0", "0">>)

\* The shape YYYY-MM-DDTHH:MM:SS at s[1..19].
IsoBodyAt(s) ==
    /\ Len(s) >= 19
    /\ \A i \in 1..19 :
          IF i \in {5, 8} THEN s[i] = "-"
          ELSE IF i = 11 THEN s[i] = "T"
          ELSE IF i \in {14, 17} THEN s[i] = ":"
          ELSE IsDigit(s[i])

\* The shape .fff
IsoFraction(s) ==
    Len(s) = 4 /\ s[1] = "." /\ \A i \in 2..4 : IsDigit(s[i])

\* The shape +HH:MM or -HH:MM
IsoOffset(s) ==
    /\ Len(s) = 6
    /\ s[1] \in {"+", "-"}
    /\ s[4] = ":"
    /\ \A i \in {2, 3, 5, 6} : IsDigit(s[i])

\* datetime.fromisoformat accepts the body, an optional millisecond
\* fraction and an optional UTC offset; anything else is a ValueError.
IsoParses(s) ==
    /\ IsoBodyAt(s)
    /\ LET rest == SubSeq(s, 20, Len(s))
       IN \/ rest = <<>>
          \/ IsoFraction(rest)
          \/ IsoOffset(rest)
          \/ /\ Len(rest) = 10
             /\ IsoFraction(SubSeq(rest, 1, 4))
             /\ IsoOffset(SubSeq(rest, 5, 10))

\* The datetime a parsable string denotes: its wall-clock part and its
\* offset (empty for a naive datetime).
FromIsoFormat(s) ==
    LET rest == SubSeq(s, 20, Len(s))
        frac == IF rest # <<>> /\ rest[1] = "." THEN SubSeq(rest, 1, 4)
                ELSE <<".", "0", "0", "0">>
        off == IF rest # <<>> /\ rest[1] = "." THEN SubSeq(rest, 5, Len(rest))
               ELSE rest
    IN [wall |-> SubSeq(s, 1, 19) \o frac, offset |-> off]

\* The RFC3339 string Cloud Storage puts in an event for the second t.
Rfc3339(t) ==
    <<"2", "0", "2", "5", "-", "0", "5", "-", "1", "3", "T",
      "1", "0", ":", "3", "0", ":", "0">> \o <<Digits[t + 1]>>
        \o <<".", "1", "2", "3", "Z">>

\* ------------------------------------------------------------------------
\* Label ranking (process_image_for_labels)
\* ------------------------------------------------------------------------

TopLabels == 4

\* key = (-score, -topicality): the two fields of the key swapped.
KeyBeforeByScore(a, b) ==
    \/ a.score > b.score
    \/ a.score = b.score /\ a.topicality > b.topicality

\* key = (-topicality, -score): a sorts strictly before b.
KeyBefore(a, b) ==
    \/ a.topicality > b.topicality
    \/ a.topicality = b.topicality /\ a.score > b.score

\* Insert x into the sorted sequence s after every element that does not
\* sort strictly after it: sorted() is stable.
RECURSIVE InsertLabel(_, _)
InsertLabel(x, s) ==
    IF s = <<>> THEN <<x>>
    ELSE IF KeyBefore(x, Head(s)) THEN <<x>> \o s
         ELSE <<Head(s)>> \o InsertLabel(x, Tail(s))

RECURSIVE SortedLabels(_)
SortedLabels(labels) ==
    IF labels = <<>> THEN <<>>
    ELSE InsertLabel(labels[Len(labels)],
                     SortedLabels(SubSeq(labels, 1, Len(labels) - 1)))

\* sorted_labels[:4]
TopOf(s) == SubSeq(s, 1, IF Len(s) < TopLabels THEN Len(s) ELSE TopLabels)

\* A label-detection outcome: the call raises, or returns annotations and
\* an error message ("" when there is none).
LabelsData(vis) ==
    IF vis.raises THEN <<>>
    ELSE [i \in 1..Len(TopOf(SortedLabels(vis.labels))) |->
            LET label == TopOf(SortedLabels(vis.labels))[i]
            IN [description |-> label.description,
                score |-> label.score,
                topicality |-> label.topicality]]

\* response.error.message if response and response.error
\* and response.error.message else None
VisionApiError(vis) ==
    IF ~vis.raises /\ vis.error # <<>> THEN vis.error ELSE None

\* ------------------------------------------------------------------------
\* process_image_for_labels and delete_image_metadata: what one invocation
\* computes from the event payload and the answers of its collaborators
\* ------------------------------------------------------------------------

\* process_image_for_labels without its directory test.
NeverDirectoryMarker(data) == FALSE

\* file_name.endswith("/")
IsDirectoryMarker(data) == EndsWith(data["name"], "/")

\* file_name is None: None.endswith raises AttributeError.
NameMissing(data) == "name" \notin DOMAIN data

\* int(size) if size else 0
SizeRaises(data) == Truthy(Get(data, "size")) /\ ~IntParses(data["size"])

SizeOf(data) == IF Truthy(Get(data, "size")) THEN IntOf(data["size"]) ELSE 0

\* The exception leaves process_image_for_labels: neither file_name.endswith
\* nor the metadata literal is inside a try block.
ProcessRaises(data) ==
    \/ NameMissing(data)
    \/ ~IsDirectoryMarker(data) /\ SizeRaises(data)

\* The handler reaches doc_ref.set.
ProcessWrites(data) ==
    ~NameMissing(data) /\ ~IsDirectoryMarker(data) /\ ~SizeRaises(data)

\* One try block parses both timestamps, timeCreated first: a ValueError
\* on timeCreated skips updated too.
TimeFields(data) ==
    LET tc == Get(data, "timeCreated")
        up == Get(data, "updated")
        tcBad == Truthy(tc) /\ ~IsoParses(NormalizeZ(tc))
        created == IF Truthy(tc) /\ ~tcBad
                   THEN "timeCreated" :> FromIsoFormat(NormalizeZ(tc))
                   ELSE <<>>
        changed == IF ~tcBad /\ Truthy(up) /\ IsoParses(NormalizeZ(up))
                   THEN "updated" :> FromIsoFormat(NormalizeZ(up))
                   ELSE <<>>
    IN created @@ changed

\* bucket_name inside the f-string: None prints as "None".
BucketText(data) ==
    IF "bucket" \in DOMAIN data THEN data["bucket"] ELSE <<"N", "o", "n", "e">>

\* The enrichment without the owner read from the blob's side metadata.
EnrichmentMetadataWithoutOwner(data, vis, userId, ts) ==
    TimeFields(data) @@
    [bucket |-> Get(data, "bucket"),
     fileName |-> data["name"],
     imageUri |-> ImageUri(BucketText(data), data["name"]),
     size |-> SizeOf(data),
     labels |-> LabelsData(vis),
     processedTimestamp |-> ts,
     visionApiError |-> VisionApiError(vis)]

\* The metadata dict of functions_cloud_event.py; userId is the owner read
\* from the blob's metadata, None when it could not be read.
EnrichmentMetadata(data, vis, userId, ts) ==
    LET base == [bucket |-> Get(data, "bucket"),
                 fileName |-> data["name"],
                 imageUri |-> ImageUri(BucketText(data), data["name"]),
                 size |-> SizeOf(data),
                 labels |-> LabelsData(vis),
                 processedTimestamp |-> ts,
                 visionApiError |-> VisionApiError(vis)]
        owner == IF Truthy(userId) THEN "userId" :> userId ELSE <<>>
    IN TimeFields(data) @@ owner @@ base

\* A merge that appends the new labels to the stored ones instead of
\* replacing them.
MergeSetAppendingLabels(store, doc_id, metadata) ==
    IF doc_id \in DOMAIN store
    THEN [store EXCEPT ![doc_id] =
            (IF "labels" \in DOMAIN @ /\ "labels" \in DOMAIN metadata
             THEN "labels" :> (@["labels"] \o metadata["labels"])
             ELSE <<>>) @@ metadata @@ @]
    ELSE (doc_id :> metadata) @@ store

\* doc_ref.set(metadata, merge=True): the written fields replace their old
\* values, every other field of the document stays.
MergeSet(store, doc_id, metadata) ==
    IF doc_id \in DOMAIN store
    THEN [store EXCEPT ![doc_id] = metadata @@ store[doc_id]]
    ELSE (doc_id :> metadata) @@ store

\* doc_ref.set(metadata): the document becomes exactly metadata.
ReplaceSet(store, doc_id, metadata) ==
    (doc_id :> metadata) @@ store

\* doc_ref.delete(): deleting an absent document is not an error.
DeleteDoc(store, doc_id) ==
    [d \in DOMAIN store \ {doc_id} |-> store[d]]

\* The document store after process_image_for_labels, when its write
\* succeeds.
ProcessResult(store, data, vis, userId, ts) ==
    IF ProcessWrites(data)
    THEN MergeSet(store, DocId(data["name"]),
                  EnrichmentMetadata(data, vis, userId, ts))
    ELSE store

\* delete_image_metadata testing the object name alone.
DeleteSkipsOnNameAlone(data) ==
    \/ ~Truthy(Get(data, "name"))
    \/ Truthy(Get(data, "name")) /\ EndsWith(data["name"], "/")

\* delete_image_metadata: "not bucket_name or not file_name", then the
\* directory marker test.
DeleteSkips(data) ==
    \/ ~Truthy(Get(data, "bucket"))
    \/ ~Truthy(Get(data, "name"))
    \/ Truthy(Get(data, "name")) /\ EndsWith(data["name"], "/")

\* The outcomes of doc_ref.delete() the handler distinguishes.
DeleteOutcomes == {"deleted", "NotFound", "Exception"}

\* delete_image_metadata without its "except NotFound" clause.
NotFoundRaises(outcome) == outcome = "NotFound"

\* Both except clauses of delete_image_metadata swallow the exception.
DeleteMetadataRaises(outcome) == FALSE

\* The document store after delete_image_metadata.
DeleteResult(store, data, outcome) ==
    IF ~DeleteSkips(data) /\ outcome = "deleted"
    THEN DeleteDoc(store, DocId(data["name"]))
    ELSE store

\* ------------------------------------------------------------------------
\* HTTP requests (functions_http.py)
\* ------------------------------------------------------------------------

Users == { <<"alice">>, <<"bob">> }

\* auth.verify_id_token: the tokens it accepts and the uid it decodes.
TokenOf(uid) == <<"token-of">> \o uid

TokenVerifies(id_token) == \E u \in Users : id_token = TokenOf(u)

Uid(id_token) == CHOOSE u \in Users : id_token = TokenOf(u)

RECURSIVE TakeUntil(_, _)
TakeUntil(s, t) ==
    IF s = <<>> \/ Head(s) = t THEN <<>>
    ELSE <<Head(s)>> \o TakeUntil(Tail(s), t)

\* auth_header.split("Bearer ")[1] of a header that starts with "Bearer ".
BearerToken(auth_header) == TakeUntil(Tail(auth_header), "Bearer ")

\* upload_image and delete_image: a missing header, a header that does not
\* start with "Bearer ", or a token that fails verification.
Unauthorized(request) ==
    LET auth_header == Get(request.headers, "Authorization")
    IN \/ ~Truthy(auth_header)
       \/ ~StartsWith(auth_header, "Bearer ")
       \/ ~TokenVerifies(BearerToken(auth_header))

\* decoded_token["uid"] of an authorized request.
Caller(request) == Uid(BearerToken(request.headers["Authorization"]))

\* The subject a request speaks for, None without a valid credential.
Subject(request) == IF Unauthorized(request) THEN None ELSE Caller(request)

\* "not image_file": the field is missing, or the FileStorage has an empty
\* filename (a FileStorage is falsy then).
NoImage(request) ==
    \/ "image" \notin DOMAIN request.files
    \/ request.files["image"].filename = <<>>

\* upload_image with the file checks ahead of the credential check.
UploadRejectionPayloadFirst(request, bucket_name) ==
    IF request.method # "POST" THEN 405
    ELSE IF bucket_name = <<>> THEN 500
    ELSE IF NoImage(request) THEN 400
    ELSE IF request.files["image"].mimetype \notin ALLOWED_IMAGE_TYPES THEN 415
    ELSE IF Unauthorized(request) THEN 401
    ELSE 0

\* The status upload_image answers before it touches a store; 0 when the
\* request passes every check.
UploadRejection(request, bucket_name) ==
    IF request.method # "POST" THEN 405
    ELSE IF bucket_name = <<>> THEN 500
    ELSE IF Unauthorized(request) THEN 401
    ELSE IF NoImage(request) THEN 400
    ELSE IF request.files["image"].mimetype \notin ALLOWED_IMAGE_TYPES THEN 415
    ELSE 0

\* The stub upload_image writes.
UploadStub(bucket_name, destination_blob_name, user_id, ts) ==
    [bucket |-> bucket_name,
     fileName |-> destination_blob_name,
     imageUri |-> ImageUri(bucket_name, destination_blob_name),
     userId |-> user_id,
     uploadedTimestamp |-> ts]

\* upload_image without its stub write.
UploadSetSkipped(store, doc_id, metadata) == store

\* firestore_client...document(doc_id).set(metadata) in upload_image.
UploadSet(store, doc_id, metadata) == ReplaceSet(store, doc_id, metadata)

\* The status delete_image answers before it reads the document; 0 when
\* the request passes every check.
DeleteRejection(request, bucket_name) ==
    IF request.method # "DELETE" THEN 405
    ELSE IF bucket_name = <<>> THEN 500
    ELSE IF Unauthorized(request) THEN 401
    ELSE IF ~Truthy(Get(request.args, "fileName")) THEN 400
    ELSE 0

\* metadata["userId"] != user_id only where a userId is recorded: a
\* document without owner is anyone's.
NotOwnerWhenOwned(metadata, user_id) ==
    "userId" \in DOMAIN metadata /\ metadata["userId"] # user_id

\* metadata.get("userId") != user_id
NotOwner(metadata, user_id) == Get(metadata, "userId") # user_id

\* delete_image after doc_ref.get(): 404, 403, or 0 to go on.
DeleteLookup(store, file_name, user_id) ==
    IF DocId(file_name) \notin DOMAIN store THEN 404
    ELSE IF NotOwner(store[DocId(file_name)], user_id) THEN 403
    ELSE 0

\* get_image_metadata: no credential is read; 400, 404, 500 for a document
\* without fileName or bucket, else 200.
GetOneStatus(store, request) ==
    LET doc_id == Get(request.args, "docId")
    IN IF ~Truthy(doc_id) THEN 400
       ELSE IF doc_id \notin DOMAIN store THEN 404
       ELSE IF \/ ~Truthy(Get(store[doc_id], "fileName"))
               \/ ~Truthy(Get(store[doc_id], "bucket")) THEN 500
       ELSE 200

\* The JSON body of a 200 answer: the whole document, signedUrl and id.
GetOneBody(store, request, signed_url) ==
    ("id" :> request.args["docId"]) @@ ("signedUrl" :> signed_url)
        @@ store[request.args["docId"]]

\* blob.generate_signed_url: the URL names the object it opens.
SignedUrl(bucket_name, file_name) ==
    <<"h", "t", "t", "p", "s", ":", "/", "/">> \o bucket_name \o <<"/">>
        \o file_name \o <<"?", "X", "-", "G", "o", "o", "g">>

\* request.headers.get("Authorization", "").replace("Bearer ", "")
IdToken(request) ==
    IF "Authorization" \in DOMAIN request.headers
    THEN SelectSeq(request.headers["Authorization"], LAMBDA t : t # "Bearer ")
    ELSE <<>>

\* get_images_metadata: no token, or a token that fails verification.
ListRejection(request) ==
    IF IdToken(request) = <<>> THEN 401
    ELSE IF ~TokenVerifies(IdToken(request)) THEN 401
    ELSE 0

\* The query without its where clause: every document of the collection.
StreamedUnfiltered(store, user_id) == DOMAIN store

\* .where("userId", "==", user_id).stream(): the ids of the documents whose
\* userId field equals user_id.
Streamed(store, user_id) ==
    { id \in DOMAIN store :
        "userId" \in DOMAIN store[id] /\ store[id]["userId"] = user_id }

\* "if not file_name or not bucket_name: continue"
Skipped(metadata) ==
    ~Truthy(Get(metadata, "fileName")) \/ ~Truthy(Get(metadata, "bucket"))

\* The documents the loop goes on to sign.
Listed(store, user_id) ==
    { d \in Streamed(store, user_id) : ~Skipped(store[d]) }

\* The dict appended to images_data for document doc_id.
ImageEntry(doc_id, metadata, signed_url) ==
    [id |-> doc_id,
     fileName |-> metadata["fileName"],
     labels |-> IF "labels" \in DOMAIN metadata THEN metadata["labels"] ELSE <<>>,
     signedUrl |-> signed_url,
     processedTimestamp |-> Get(metadata, "processedTimestamp"),
     timeCreated |-> Get(metadata, "timeCreated"),
     size |-> Get(metadata, "size")]

\* The loop without the try around the signing: a document whose signing
\* raised is not appended.
ImagesDataOfSigned(store, user_id, unsigned) ==
    { ImageEntry(id, store[id],
                 SignedUrl(store[id]["bucket"], store[id]["fileName"])) :
        id \in Listed(store, user_id) \ unsigned }

\* images_data, as the set of its entries; the signing raised for the
\* documents in unsigned.
ImagesData(store, user_id, unsigned) ==
    { ImageEntry(id, store[id],
                 IF id \in unsigned THEN None
                 ELSE SignedUrl(store[id]["bucket"], store[id]["fileName"])) :
        id \in Listed(store, user_id) }

\* The functions behind cors_middleware.
WrappedEndpoints ==
    {"upload_image", "delete_image", "get_images_metadata",
     "get_image_metadata", "ocr_image"}

\* The methods a handler accepts; the two get functions test none.
AcceptedMethods(op) ==
    IF op \in {"upload_image", "ocr_image"} THEN {"POST"}
    ELSE IF op = "delete_image" THEN {"DELETE"}
    ELSE {"GET", "POST", "DELETE", "OPTIONS"}

\* The value a handler returns for a status: jsonify(...), a Response, for
\* the 200 of the two get functions and of ocr_image, and the tuple
\* (text, status) everywhere else.
Returned(op, status) ==
    [shape |-> IF /\ status = 200
                  /\ op \in {"get_images_metadata", "get_image_metadata",
                             "ocr_image"}
               THEN "Response" ELSE "tuple",
     status |-> status]

\* The headers of the answer to a preflight request.
PreflightHeaders ==
    ("Access-Control-Allow-Origin" :> <<"*">>)
        @@ ("Access-Control-Allow-Methods" :> <<"GET, POST, DELETE, OPTIONS">>)
        @@ ("Access-Control-Allow-Headers" :> <<"Authorization, Content-Type">>)
        @@ ("Access-Control-Max-Age" :> <<"86400">>)

\* The second half of wrapper: a 2-tuple, a str, dict or list, and a
\* Response get the allow-origin header; any other value is passed on.
WithOrigin(result) ==
    IF result.shape \in {"tuple", "Response"}
    THEN [status |-> result.status,
          headers |-> "Access-Control-Allow-Origin" :> <<"*">>]
    ELSE IF result.shape = "jsonable"
    THEN [status |-> 200, headers |-> "Access-Control-Allow-Origin" :> <<"*">>]
    ELSE [status |-> result.status, headers |-> <<>>]

\* wrapper without its OPTIONS branch: the handler answers the preflight.
cors_middleware_without_preflight(preflight, result) == WithOrigin(result)

\* wrapper(request): preflight is request.method == "OPTIONS", result what
\* func(request) returns.
cors_middleware(preflight, result) ==
    IF preflight THEN [status |-> 200, headers |-> PreflightHeaders]
    ELSE WithOrigin(result)

\* ocr_image up to its checks; 0 when the picture goes to text detection.
OcrRejection(request) ==
    IF request.method # "POST" THEN 405
    ELSE IF NoImage(request) THEN 400
    ELSE IF request.files["image"].mimetype \notin ALLOWED_IMAGE_TYPES THEN 415
    ELSE 0

\* blob.delete() left out: the object stays.
RemoveBlobSkipped(bucket, file_name) == bucket

\* blob.delete()
RemoveBlob(bucket, file_name) ==
    [n \in DOMAIN bucket \ {file_name} |-> bucket[n]]

\* ------------------------------------------------------------------------
\* The deployed system: the bucket, the image_metadata collection, the
\* storage events and the requests in flight
\* ------------------------------------------------------------------------

VARIABLES
    BUCKET_NAME,  \* os.environ.get("BUCKET_NAME", "")
    blobs,        \* the bucket: object name -> [metadata, size, shows]
    docs,         \* image_metadata: document id -> document
    events,       \* storage events emitted so far, with their delivery count
    now,          \* the second the clocks show
    inflight,     \* HTTP requests between two of their external calls
    last          \* what the latest step answered

vars == <<BUCKET_NAME, blobs, docs, events, now, inflight, last>>

MaxClock == 1
MaxEvents == 2
MaxDeliveries == 2
MaxInFlight == 2

Photos == <<"p", "h", "o", "t", "o", "s">>

APng == <<"a", ".", "p", "n", "g">>

\* An object put into the bucket by other means than upload_image.
Stray == <<"u", "p", "l", "o", "a", "d", "s", "/", "x", ".", "p", "n", "g">>

Bearer(uid) == <<"Bearer ">> \o TokenOf(uid)

AuthHeaders ==
    { <<>> } \cup
    { "Authorization" :> h :
        h \in { Bearer(u) : u \in Users } \cup
              { <<"Bearer ", "expired">>, <<"Basic ">> \o TokenOf(<<"alice">>) } }

MimeTypes == ALLOWED_IMAGE_TYPES \cup allowed_types \cup { <<"application/pdf">> }

Files ==
    { <<>>,
      "image" :> [filename |-> <<>>, mimetype |-> <<"image/jpeg">>,
                  size |-> <<"7">>] } \cup
    { "image" :> [filename |-> APng, mimetype |-> m, size |-> <<"7">>] :
        m \in MimeTypes }

UploadRequests ==
    [method : {"POST"}, headers : AuthHeaders, files : Files] \cup
    [method : {"GET"}, headers : {"Authorization" :> Bearer(<<"alice">>)},
     files : {"image" :> [filename |-> APng, mimetype |-> <<"image/jpeg">>,
                          size |-> <<"7">>]}]

\* Label-detection answers.
Cat == [description |-> <<"cat">>, score |-> 9, topicality |-> 9]

Pet == [description |-> <<"pet">>, score |-> 8, topicality |-> 9]

\* label_detection raises; error is the message of the exception.
VisionRaises == [raises |-> TRUE, labels |-> <<>>, error |-> <<"unavailable">>]

VisionError == [raises |-> FALSE, labels |-> <<>>, error |-> <<"unreadable">>]

\* Label detection answers with the labels of what the picture shows.
Seen(labels) == [raises |-> FALSE, labels |-> labels, error |-> <<>>]

VisionLabels == Seen(<<Pet, Cat>>)

\* vision_client.label_detection on gs://bucket/name: labels only for an
\* object that is there.
VisionAnswers(bucket, data) ==
    IF data["name"] \in DOMAIN bucket
    THEN {VisionRaises, VisionError, Seen(bucket[data["name"]].shows)}
    ELSE {VisionRaises, VisionError}

\* blob.reload() and blob.metadata["userId"]: None when the reload raises or
\* the blob carries no userId.
OwnerAnswers(bucket, data) ==
    {None} \cup
    (IF data["name"] \in DOMAIN bucket
        /\ "userId" \in DOMAIN bucket[data["name"]].metadata
     THEN {bucket[data["name"]].metadata["userId"]}
     ELSE {})

\* The answer of the latest step. Besides what the caller sees (status,
\* headers, body) it records what the call did: raised, an exception left
\* the handler; unsigned, the documents whose URL signing raised;
\* credentials, the calls of utils.get_impersonated_credentials.
Answer(op, status, user, name) ==
    [op |-> op, status |-> status, raised |-> FALSE,
     user |-> user, name |-> name, body |-> <<>>, headers |-> <<>>,
     unsigned |-> {}, credentials |-> 0]

\* What a handler of functions_http.py answers through cors_middleware;
\* status 0 stands for a call that has not returned yet.
Reply(op, status, user, name) ==
    IF status = 0 THEN Answer(op, 0, user, name)
    ELSE LET response == cors_middleware(FALSE, Returned(op, status))
         IN [Answer(op, response.status, user, name)
               EXCEPT !.headers = response.headers]

Init ==
    /\ BUCKET_NAME \in {<<>>, Photos}
    /\ blobs = <<>>
    /\ docs = <<>>
    /\ events = <<>>
    /\ now = 0
    /\ inflight = {}
    /\ last = Answer("none", 0, None, None)

\* A second passes.
Tick ==
    /\ now < MaxClock
    /\ now' = now + 1
    /\ UNCHANGED <<BUCKET_NAME, blobs, docs, events, inflight, last>>

\* The object-finalized event Cloud Storage emits for a written object.
Finalized(bucket_name, name, size, t) ==
    [type |-> "finalized", delivered |-> 0, landed |-> FALSE,
     data |-> [bucket |-> bucket_name, name |-> name, metageneration |-> <<"1">>,
               timeCreated |-> Rfc3339(t), updated |-> Rfc3339(t), size |-> size]]

\* The event of an object upload_image stored, with the file name the
\* client supplied for it (kept for the record; no handler reads it).
Supplied(event, filename) ==
    [type |-> event.type, delivered |-> event.delivered, landed |-> event.landed,
     data |-> event.data, supplied |-> filename]

\* The object-deleted event.
Deleted(bucket_name, name) ==
    [type |-> "deleted", delivered |-> 0, landed |-> FALSE,
     data |-> [bucket |-> bucket_name, name |-> name, metageneration |-> <<"1">>]]

\* upload_image up to the checks: some request is turned away with status.
UploadImageReject(status) ==
    /\ status \in { UploadRejection(request, BUCKET_NAME) :
                        request \in UploadRequests }
    /\ last' = Reply("upload_image", status, None, None)
    /\ UNCHANGED <<BUCKET_NAME, blobs, docs, events, now, inflight>>

\* The calls in flight are told apart by function, subject and path: a
\* subject has one request of a kind per path under way.
Underway(call) ==
    \E other \in inflight :
        other.op = call.op /\ other.user = call.user /\ other.name = call.name

\* upload_image through blob.upload_from_file: the object is written with
\* the caller's id as blob metadata, or the storage call raises.
UploadImageStore(request) ==
    /\ UploadRejection(request, BUCKET_NAME) = 0
    /\ LET user_id == Caller(request)
           image_file == request.files["image"]
           name == DestinationBlobName(now, image_file.filename)
           call == [op |-> "upload_image", pc |-> "patch",
                    user |-> user_id, name |-> name]
       IN \/ /\ Len(events) < MaxEvents
             /\ Cardinality(inflight) < MaxInFlight
             /\ ~Underway(call)
             /\ blobs' = (name :> [metadata |-> [userId |-> user_id],
                                   size |-> image_file.size,
                                   shows |-> <<Pet, Cat>>]) @@ blobs
             /\ events' = Append(events,
                                 Supplied(Finalized(BUCKET_NAME, name,
                                                    image_file.size, now),
                                          image_file.filename))
             /\ inflight' = inflight \cup {call}
             /\ last' = Reply("upload_image", 0, user_id, name)
             /\ UNCHANGED <<BUCKET_NAME, docs, now>>
          \/ /\ last' = Reply("upload_image", 500, user_id, name)
             /\ UNCHANGED <<BUCKET_NAME, blobs, docs, events, now, inflight>>

\* blob.patch(): no property changed since the upload, so the object stays
\* as it is; the call raises when the object is gone.
UploadImagePatch(call) ==
    /\ call.op = "upload_image" /\ call.pc = "patch"
    /\ \/ /\ call.name \in DOMAIN blobs
          /\ inflight' = (inflight \ {call}) \cup {[call EXCEPT !.pc = "set"]}
          /\ last' = Reply("upload_image", 0, call.user, call.name)
       \/ /\ inflight' = inflight \ {call}
          /\ last' = Reply("upload_image", 500, call.user, call.name)
    /\ UNCHANGED <<BUCKET_NAME, blobs, docs, events, now>>

\* document(doc_id).set(metadata) and the 201, or the 500 of the except.
UploadImageSet(call) ==
    /\ call.op = "upload_image" /\ call.pc = "set"
    /\ inflight' = inflight \ {call}
    /\ \/ /\ docs' = UploadSet(docs, DocId(call.name),
                               UploadStub(BUCKET_NAME, call.name, call.user, now))
          /\ last' = Reply("upload_image", 201, call.user, call.name)
       \/ /\ docs' = docs
          /\ last' = Reply("upload_image", 500, call.user, call.name)
    /\ UNCHANGED <<BUCKET_NAME, blobs, events, now>>

\* The object names a client can ask about: every name ever stored, and
\* one that never was.
KnownNames == { events[i].data["name"] : i \in 1..Len(events) } \cup {Stray}

DeleteRequests ==
    [method : {"DELETE"}, headers : AuthHeaders,
     args : { <<>> } \cup { "fileName" :> n : n \in KnownNames }] \cup
    [method : {"GET"}, headers : {"Authorization" :> Bearer(<<"alice">>)},
     args : { "fileName" :> Stray }]

\* delete_image up to the checks: some request is turned away with status
\* (405, 500, 401, 400).
DeleteImageReject(status) ==
    /\ status # 0
    /\ status \in { DeleteRejection(request, BUCKET_NAME) :
                        request \in DeleteRequests }
    /\ last' = Reply("delete_image", status, None, None)
    /\ UNCHANGED <<BUCKET_NAME, blobs, docs, events, now, inflight>>

\* doc_ref.get() raises: the except answers 500.
DeleteImageReadFails ==
    /\ 0 \in { DeleteRejection(request, BUCKET_NAME) : request \in DeleteRequests }
    /\ last' = Reply("delete_image", 500, None, None)
    /\ UNCHANGED <<BUCKET_NAME, blobs, docs, events, now, inflight>>

\* delete_image after doc_ref.get(): no document (404), or a document whose
\* userId is not the caller's (403).
DeleteImageRefuse(request) ==
    /\ DeleteRejection(request, BUCKET_NAME) = 0
    /\ DeleteLookup(docs, request.args["fileName"], Caller(request)) # 0
    /\ last' = Reply("delete_image",
                      DeleteLookup(docs, request.args["fileName"], Caller(request)),
                      Caller(request), request.args["fileName"])
    /\ UNCHANGED <<BUCKET_NAME, blobs, docs, events, now, inflight>>

\* delete_image: the caller owns the document; blob.exists() comes next.
DeleteImageOwner(request) ==
    /\ DeleteRejection(request, BUCKET_NAME) = 0
    /\ DeleteLookup(docs, request.args["fileName"], Caller(request)) = 0
    /\ LET call == [op |-> "delete_image", pc |-> "exists",
                    user |-> Caller(request), name |-> request.args["fileName"]]
       IN /\ Cardinality(inflight) < MaxInFlight
          /\ ~Underway(call)
          /\ inflight' = inflight \cup {call}
          /\ last' = Reply("delete_image", 0, call.user, call.name)
    /\ UNCHANGED <<BUCKET_NAME, blobs, docs, events, now>>

\* blob.exists(): an absent object is answered 200 at once; the call may
\* raise (500).
DeleteImageExists(call) ==
    /\ call.op = "delete_image" /\ call.pc = "exists"
    /\ \/ /\ call.name \notin DOMAIN blobs
          /\ inflight' = inflight \ {call}
          /\ last' = Reply("delete_image", 200, call.user, call.name)
       \/ /\ call.name \in DOMAIN blobs
          /\ inflight' = (inflight \ {call}) \cup {[call EXCEPT !.pc = "delete"]}
          /\ last' = Reply("delete_image", 0, call.user, call.name)
       \/ /\ inflight' = inflight \ {call}
          /\ last' = Reply("delete_image", 500, call.user, call.name)
    /\ UNCHANGED <<BUCKET_NAME, blobs, docs, events, now>>

\* blob.delete() and the 200; NotFound or any other failure is the 500 of
\* the except. The document is left to delete_image_metadata.
DeleteImageBlob(call) ==
    /\ call.op = "delete_image" /\ call.pc = "delete"
    /\ inflight' = inflight \ {call}
    /\ \/ /\ call.name \in DOMAIN blobs
          /\ Len(events) < MaxEvents
          /\ blobs' = RemoveBlob(blobs, call.name)
          /\ events' = Append(events, Deleted(BUCKET_NAME, call.name))
          /\ last' = Reply("delete_image", 200, call.user, call.name)
       \/ /\ UNCHANGED <<blobs, events>>
          /\ last' = Reply("delete_image", 500, call.user, call.name)
    /\ UNCHANGED <<BUCKET_NAME, docs, now>>

\* One more delivery of event i; landed once a delivery ran to its end
\* without a failed store call.
Handled(i, ok) ==
    [events EXCEPT ![i].delivered = @ + 1, ![i].landed = @ \/ ok]

\* process_image_for_labels on a delivery of event i: label detection and
\* the blob reload answer vis and userId, and the merge-set lands or raises
\* into the last except.
ProcessImageForLabels(i) ==
    /\ events[i].type = "finalized"
    /\ events[i].delivered < MaxDeliveries
    /\ LET data == events[i].data
       IN \/ /\ ProcessWrites(data)
             /\ \E vis \in VisionAnswers(blobs, data),
                   userId \in OwnerAnswers(blobs, data) :
                   /\ docs' = ProcessResult(docs, data, vis, userId, now)
                   /\ last' = [Answer("process_image_for_labels", 0, None,
                                      data["name"])
                                 EXCEPT !.body = [data |-> data, vis |-> vis,
                                                  userId |-> userId,
                                                  saved |-> TRUE]]
             /\ events' = Handled(i, TRUE)
          \/ /\ ProcessWrites(data)
             /\ docs' = docs
             /\ last' = [Answer("process_image_for_labels", 0, None, data["name"])
                           EXCEPT !.body = [saved |-> FALSE]]
             /\ events' = Handled(i, FALSE)
          \/ /\ ~ProcessWrites(data)
             /\ docs' = docs
             /\ last' = [Answer("process_image_for_labels", 0, None,
                                Get(data, "name"))
                           EXCEPT !.raised = ProcessRaises(data)]
             /\ events' = Handled(i, ~ProcessRaises(data))
    /\ UNCHANGED <<BUCKET_NAME, blobs, now, inflight>>

\* delete_image_metadata on a delivery of event i.
DeleteImageMetadata(i) ==
    /\ events[i].type = "deleted"
    /\ events[i].delivered < MaxDeliveries
    /\ LET data == events[i].data
       IN \/ /\ ~DeleteSkips(data)
             /\ \E outcome \in DeleteOutcomes :
                   /\ outcome = "NotFound" => DocId(data["name"]) \notin DOMAIN docs
                   /\ docs' = DeleteResult(docs, data, outcome)
                   /\ last' = [Answer("delete_image_metadata", 0, None,
                                      data["name"])
                                 EXCEPT !.raised = DeleteMetadataRaises(outcome),
                                        !.body = [outcome |-> outcome]]
                   /\ events' = Handled(i, outcome # "Exception"
                                           /\ ~DeleteMetadataRaises(outcome))
          \/ /\ DeleteSkips(data)
             /\ docs' = docs
             /\ last' = Answer("delete_image_metadata", 0, None, Get(data, "name"))
             /\ events' = Handled(i, TRUE)
    /\ UNCHANGED <<BUCKET_NAME, blobs, now, inflight>>

GetOneRequests ==
    [headers : { <<>> } \cup { "Authorization" :> Bearer(u) : u \in Users },
     args : { <<>> } \cup { "docId" :> DocId(n) : n \in KnownNames }]

\* get_image_metadata answers 400, 404 or the 500 of an incomplete
\* document without reading any credential.
GetImageMetadataRefuse(request) ==
    /\ GetOneStatus(docs, request) # 200
    /\ last' = Reply("get_image_metadata", GetOneStatus(docs, request),
                      None, None)
    /\ UNCHANGED <<BUCKET_NAME, blobs, docs, events, now, inflight>>

\* get_image_metadata answers the document to whoever asks, with a signed
\* URL, or with signedUrl None when the signing raised.
GetImageMetadataFound(request) ==
    /\ GetOneStatus(docs, request) = 200
    /\ \E signed \in BOOLEAN, asked \in 0..1 :
          LET doc == docs[request.args["docId"]]
              url == IF signed THEN SignedUrl(doc["bucket"], doc["fileName"])
                     ELSE None
          IN /\ signed => asked = 1
             /\ last' = [Reply("get_image_metadata", 200, Subject(request),
                               request.args["docId"])
                          EXCEPT !.body = GetOneBody(docs, request, url),
                                 !.unsigned = IF signed THEN {}
                                              ELSE {request.args["docId"]},
                                 !.credentials = asked]
    /\ UNCHANGED <<BUCKET_NAME, blobs, docs, events, now, inflight>>

\* doc_ref.get() raises: the outer except answers 500.
GetImageMetadataFail(request) ==
    /\ Truthy(Get(request.args, "docId"))
    /\ last' = Reply("get_image_metadata", 500, None, None)
    /\ UNCHANGED <<BUCKET_NAME, blobs, docs, events, now, inflight>>

ListRequests ==
    [headers : AuthHeaders \cup { "Authorization" :> TokenOf(<<"alice">>) }]

\* get_images_metadata answers 401 without reading the collection.
GetImagesMetadataRefuse ==
    /\ \E request \in ListRequests : ListRejection(request) = 401
    /\ last' = Reply("get_images_metadata", 401, None, None)
    /\ UNCHANGED <<BUCKET_NAME, blobs, docs, events, now, inflight>>

\* get_images_metadata for a verified token: the listing, each entry with a
\* signed URL or with None where the signing raised; or the 500 of the
\* outer except when the query raises. utils.get_impersonated_credentials()
\* is called in the loop body, for every listed document whose
\* storage_client.get_bucket did not raise (early: those whose did).
GetImagesMetadataList(request) ==
    /\ ListRejection(request) = 0
    /\ LET user_id == Uid(IdToken(request))
       IN \/ \E unsigned \in SUBSET Listed(docs, user_id) :
             \E early \in SUBSET unsigned :
               last' = [Reply("get_images_metadata", 200, user_id, None)
                          EXCEPT !.body = [images |->
                                             ImagesData(docs, user_id, unsigned)],
                                 !.unsigned = unsigned,
                                 !.credentials =
                                     Cardinality(Listed(docs, user_id) \ early)]
          \/ last' = Reply("get_images_metadata", 500, user_id, None)
    /\ UNCHANGED <<BUCKET_NAME, blobs, docs, events, now, inflight>>

\* ocr_image: a refusal, the boxes of the detected text, or the 500 of its
\* except; no store is read or written.
OcrImage(status) ==
    /\ \/ status \in { OcrRejection(request) : request \in UploadRequests } \ {0}
       \/ /\ status \in {200, 500}
          /\ \E request \in UploadRequests : OcrRejection(request) = 0
    /\ last' = Reply("ocr_image", status, None, None)
    /\ UNCHANGED <<BUCKET_NAME, blobs, docs, events, now, inflight>>

\* An OPTIONS request to a wrapped function: wrapper answers it, or hands
\* it to the handler, whose first answer to this method is the result.
Options(op) ==
    /\ op \in WrappedEndpoints
    /\ LET handled ==
             IF "OPTIONS" \notin AcceptedMethods(op) THEN Returned(op, 405)
             ELSE IF op = "get_images_metadata" THEN Returned(op, 401)
             ELSE Returned(op, 400)
           response == cors_middleware(TRUE, handled)
       IN last' = [Answer(op, response.status, None, None)
                     EXCEPT !.headers = response.headers,
                            !.body = [method |-> "OPTIONS"]]
    /\ UNCHANGED <<BUCKET_NAME, blobs, docs, events, now, inflight>>

\* The pipeline: the paths of the HTTP handlers that write (an accepted
\* upload, an owner's delete, one external call per step) racing the
\* storage-triggered handlers, each event delivered in any order and
\* possibly again. The refusals and reads, which change no store, are in
\* NextHttp.
Next ==
    \/ \E request \in UploadRequests : UploadImageStore(request)
    \/ \E call \in inflight : UploadImagePatch(call)
    \/ \E call \in inflight : UploadImageSet(call)
    \/ \E request \in DeleteRequests : DeleteImageOwner(request)
    \/ \E call \in inflight : DeleteImageExists(call)
    \/ \E call \in inflight : DeleteImageBlob(call)
    \/ \E i \in 1..Len(events) : ProcessImageForLabels(i)
    \/ \E i \in 1..Len(events) : DeleteImageMetadata(i)

Spec == Init /\ [][Next]_vars

\* The HTTP functions alone, every path of every handler, before any
\* trigger has run.
NextHttp ==
    \/ \E status \in {405, 500, 401, 400, 415} : UploadImageReject(status)
    \/ \E request \in UploadRequests : UploadImageStore(request)
    \/ \E call \in inflight : UploadImagePatch(call)
    \/ \E call \in inflight : UploadImageSet(call)
    \/ \E status \in {405, 500, 401, 400} : DeleteImageReject(status)
    \/ DeleteImageReadFails
    \/ \E request \in DeleteRequests : DeleteImageRefuse(request)
    \/ \E request \in DeleteRequests : DeleteImageOwner(request)
    \/ \E call \in inflight : DeleteImageExists(call)
    \/ \E call \in inflight : DeleteImageBlob(call)
    \/ \E request \in GetOneRequests : GetImageMetadataRefuse(request)
    \/ \E request \in GetOneRequests : GetImageMetadataFound(request)
    \/ \E request \in GetOneRequests : GetImageMetadataFail(request)
    \/ GetImagesMetadataRefuse
    \/ \E request \in ListRequests : GetImagesMetadataList(request)
    \/ \E status \in {405, 400, 415, 200, 500} : OcrImage(status)
    \/ \E op \in WrappedEndpoints : Options(op)

\* The stores as an object put into the bucket by other means leaves them
\* once its finalize event is handled: a blob without userId metadata and
\* a document without userId.
StrayBlob == Stray :> [metadata |-> <<>>, size |-> <<"7">>, shows |-> <<Pet, Cat>>]

StrayDoc ==
    ProcessResult(<<>>, Finalized(Photos, Stray, <<"7">>, 0).data,
                  VisionLabels, None, 0)

\* An object alice uploaded before, as b.png.
Older == DestinationBlobName(0, <<"b", ".", "p", "n", "g">>)

OlderBlob ==
    Older :> [metadata |-> [userId |-> <<"alice">>], size |-> <<"7">>,
              shows |-> <<Pet, Cat>>]

\* Its document: alice's stub, merged with the enrichment of a finalize
\* event that carried no bucket.
PartialDoc ==
    ProcessResult(DocId(Older) :> UploadStub(Photos, Older, <<"alice">>, 0),
                  [k \in DOMAIN Finalized(Photos, Older, <<"7">>, 0).data \ {"bucket"}
                     |-> Finalized(Photos, Older, <<"7">>, 0).data[k]],
                  VisionLabels, None, 0)

InitHttp ==
    /\ BUCKET_NAME \in {<<>>, Photos}
    /\ \/ blobs = <<>> /\ docs = <<>>
       \/ blobs = StrayBlob /\ docs = StrayDoc
       \/ blobs = StrayBlob @@ OlderBlob /\ docs = StrayDoc @@ PartialDoc
    /\ events = <<>>
    /\ now = 0
    /\ inflight = {}
    /\ last = Answer("none", 0, None, None)

SpecHttp == InitHttp /\ [][NextHttp]_vars

\* ------------------------------------------------------------------------
\* The two storage-triggered handlers alone, on the payloads and documents
\* they can meet
\* ------------------------------------------------------------------------

\* The object upload_image stores for a.png.
Obj == DestinationBlobName(0, APng)

Without(d, key) == [k \in DOMAIN d \ {key} |-> d[k]]

GoodFinalize == Finalized(Photos, Obj, <<"7">>, 0)

GoodDelete == Deleted(Photos, Obj)

\* data of a finalized event: as Cloud Storage sends it, and with a field
\* missing or malformed.
FinalizePayloads ==
    { GoodFinalize.data,
      [GoodFinalize.data EXCEPT !.size = <<"7", "x">>],
      Without(GoodFinalize.data, "size"),
      [GoodFinalize.data EXCEPT !.name = <<"u", "p", "l", "o", "a", "d", "s", "/">>],
      Without(GoodFinalize.data, "name"),
      [GoodFinalize.data EXCEPT !.timeCreated = <<"s", "o", "o", "n">>],
      Without(GoodFinalize.data, "bucket") }

DeletePayloads ==
    { GoodDelete.data,
      [GoodDelete.data EXCEPT !.name = <<"u", "p", "l", "o", "a", "d", "s", "/">>],
      Without(GoodDelete.data, "bucket"),
      [GoodDelete.data EXCEPT !.bucket = <<>>],
      Without(GoodDelete.data, "name"),
      [GoodDelete.data EXCEPT !.name = <<>>] }

\* The events of one path, in the order the bucket emitted them.
EventHistories ==
    { <<[GoodFinalize EXCEPT !.data = p]>> : p \in FinalizePayloads } \cup
    { <<GoodFinalize, [GoodDelete EXCEPT !.data = p]>> : p \in DeletePayloads } \cup
    { <<GoodFinalize, GoodDelete, GoodFinalize>> }

\* The indices of the events about the object name.
EventsOf(history, name) ==
    { i \in 1..Len(history) : Get(history[i].data, "name") = name }

LastEventOf(history, name) ==
    history[CHOOSE i \in EventsOf(history, name) :
                \A j \in EventsOf(history, name) : j <= i]

\* The bucket after the history: Obj is there when its last event is a
\* finalize.
ObjectAfter(history) ==
    IF /\ EventsOf(history, Obj) # {}
       /\ LastEventOf(history, Obj).type = "finalized"
    THEN Obj :> [metadata |-> [userId |-> <<"alice">>], size |-> <<"7">>,
                 shows |-> <<Pet, Cat>>]
    ELSE <<>>

\* The document the handlers find: none, upload_image's stub, or what an
\* earlier enrichment of the same path left.
PriorDocs ==
    { <<>>,
      DocId(Obj) :> UploadStub(Photos, Obj, <<"alice">>, 0),
      ProcessResult(<<>>, GoodFinalize.data,
                    [raises |-> FALSE, labels |-> <<Cat>>, error |-> <<>>],
                    None, 0) }

InitHandlers ==
    /\ BUCKET_NAME = Photos
    /\ events \in EventHistories
    /\ blobs = ObjectAfter(events)
    /\ docs \in PriorDocs
    /\ now = 0
    /\ inflight = {}
    /\ last = Answer("none", 0, None, None)

NextHandlers ==
    \/ Tick
    \/ \E i \in 1..Len(events) : ProcessImageForLabels(i)
    \/ \E i \in 1..Len(events) : DeleteImageMetadata(i)

SpecHandlers == InitHandlers /\ [][NextHandlers]_vars

\* ------------------------------------------------------------------------
\* The two reading functions over collections of several documents
\* ------------------------------------------------------------------------

\* alice's a.png of second 0 and of second 1, and bob's b.png of second 1.
Second == DestinationBlobName(1, APng)

\* Their documents: a stub, a stub merged with its enrichment, a stub; with
\* the document without userId and alice's document without bucket.
ReadDocs ==
    LET Third == DestinationBlobName(1, <<"b", ".", "p", "n", "g">>)
    IN (DocId(Obj) :> UploadStub(Photos, Obj, <<"alice">>, 0))
        @@ ProcessResult(DocId(Second) :> UploadStub(Photos, Second, <<"alice">>, 1),
                         Finalized(Photos, Second, <<"7">>, 1).data,
                         VisionLabels, <<"alice">>, 1)
        @@ (DocId(Third) :> UploadStub(Photos, Third, <<"bob">>, 1))
        @@ StrayDoc @@ PartialDoc

ReadRequests ==
    [headers : { <<>> } \cup { "Authorization" :> Bearer(u) : u \in Users },
     args : { <<>> } \cup { "docId" :> id : id \in DOMAIN ReadDocs }]

\* Any part of the documents is stored; the objects play no part in a read.
InitRead ==
    /\ BUCKET_NAME = Photos
    /\ blobs = <<>>
    /\ \E ids \in SUBSET DOMAIN ReadDocs : docs = [id \in ids |-> ReadDocs[id]]
    /\ events = <<>>
    /\ now = 1
    /\ inflight = {}
    /\ last = Answer("none", 0, None, None)

NextRead ==
    \/ GetImagesMetadataRefuse
    \/ \E request \in ListRequests : GetImagesMetadataList(request)
    \/ \E request \in ReadRequests : GetImageMetadataRefuse(request)
    \/ \E request \in ReadRequests : GetImageMetadataFound(request)
    \/ \E request \in ReadRequests : GetImageMetadataFail(request)

SpecRead == InitRead /\ [][NextRead]_vars

\* ------------------------------------------------------------------------
\* delete_image on a stored picture, with the delete events it causes
\* ------------------------------------------------------------------------

\* alice's a.png is stored and its finalize event handled: the document is
\* her stub, alone or merged with the enrichment.
InitDelete ==
    /\ BUCKET_NAME = Photos
    /\ blobs = Obj :> [metadata |-> [userId |-> <<"alice">>], size |-> <<"7">>,
                       shows |-> <<Pet, Cat>>]
    /\ docs \in { DocId(Obj) :> UploadStub(Photos, Obj, <<"alice">>, 0),
                  ProcessResult(DocId(Obj) :> UploadStub(Photos, Obj, <<"alice">>, 0),
                                GoodFinalize.data, VisionLabels, <<"alice">>, 0) }
    /\ events = <<[GoodFinalize EXCEPT !.delivered = 1, !.landed = TRUE]>>
    /\ now = 0
    /\ inflight = {}
    /\ last = Answer("none", 0, None, None)

NextDelete ==
    \/ \E request \in DeleteRequests : DeleteImageRefuse(request)
    \/ \E request \in DeleteRequests : DeleteImageOwner(request)
    \/ \E call \in inflight : DeleteImageExists(call)
    \/ \E call \in inflight : DeleteImageBlob(call)
    \/ \E i \in 1..Len(events) : DeleteImageMetadata(i)

SpecDelete == InitDelete /\ [][NextDelete]_vars

\* ------------------------------------------------------------------------
\* upload_image within one second, under the file names clients supply
\* ------------------------------------------------------------------------

FileNames ==
    { APng,
      <<"a", " ", "b", ".", "p", "n", "g">>,
      <<"a", "_", "b", ".", "p", "n", "g">>,
      <<"/", "a", ".", "p", "n", "g">> }

NamedUploads ==
    [method : {"POST"},
     headers : { "Authorization" :> Bearer(u) : u \in Users },
     files : { "image" :> [filename |-> f, mimetype |-> <<"image/png">>,
                           size |-> <<"7">>] : f \in FileNames }]

InitNames ==
    /\ BUCKET_NAME = Photos
    /\ blobs = <<>>
    /\ docs = <<>>
    /\ events = <<>>
    /\ now = 0
    /\ inflight = {}
    /\ last = Answer("none", 0, None, None)

NextNames ==
    \/ \E request \in NamedUploads : UploadImageStore(request)
    \/ \E call \in inflight : UploadImagePatch(call)
    \/ \E call \in inflight : UploadImageSet(call)

SpecNames == InitNames /\ [][NextNames]_vars

\* ------------------------------------------------------------------------
\* process_image_for_labels on pictures of every kind
\* ------------------------------------------------------------------------

MaxLabels == 5

\* The k-th annotation of a response, told apart by its description.
LabelAt(k, topicality, score) ==
    [description |-> <<"label", Digits[k + 1]>>,
     score |-> score, topicality |-> topicality]

\* Every response of up to MaxLabels annotations with two levels of
\* topicality and of score.
LabelLists ==
    UNION { { [k \in 1..n |-> LabelAt(k, f[k][1], f[k][2])] :
                f \in [1..n -> {8, 9} \X {8, 9}] } : n \in 0..MaxLabels }

InitLabels ==
    /\ BUCKET_NAME = Photos
    /\ events = <<GoodFinalize>>
    /\ \E labels \in LabelLists :
          blobs = Obj :> [metadata |-> [userId |-> <<"alice">>],
                          size |-> <<"7">>, shows |-> labels]
    /\ docs = <<>>
    /\ now = 0
    /\ inflight = {}
    /\ last = Answer("none", 0, None, None)

NextLabels == \E i \in 1..Len(events) : ProcessImageForLabels(i)

SpecLabels == InitLabels /\ [][NextLabels]_vars

\* ------------------------------------------------------------------------
\* main.py: the same functions in one file, without credentials, with an
\* allow-list of its own and a replacing write
\* ------------------------------------------------------------------------

\* The status main.py's upload_image answers before it touches the bucket;
\* 0 when the request passes every check. The method and the Authorization
\* header are not read.
MainUploadRejection(request, bucket_name) ==
    IF bucket_name = <<>> THEN 500
    ELSE IF NoImage(request) THEN 400
    ELSE IF request.files["image"].mimetype \notin allowed_types THEN 415
    ELSE 0

\* What a property needs to know of the request an answer is for.
Asked(request) ==
    [method |-> request.method] @@
    (IF NoImage(request) THEN <<>>
     ELSE "mimetype" :> request.files["image"].mimetype)

\* main.py's upload_image: the checks, then blob.upload_from_file and the
\* 201, or the 500 of the except. No document is written.
MainUploadImage(request) ==
    LET status == MainUploadRejection(request, BUCKET_NAME)
        name == DestinationBlobName(now, request.files["image"].filename)
    IN \/ /\ status # 0
          /\ last' = [Answer("upload_image", status, Subject(request), None)
                        EXCEPT !.body = Asked(request)]
          /\ UNCHANGED <<BUCKET_NAME, blobs, docs, events, now, inflight>>
       \/ /\ status = 0
          /\ Len(events) < MaxEvents
          /\ blobs' = (name :> [metadata |-> <<>>,
                                size |-> request.files["image"].size,
                                shows |-> <<Pet, Cat>>]) @@ blobs
          /\ events' = Append(events,
                              Finalized(BUCKET_NAME, name,
                                        request.files["image"].size, now))
          /\ last' = [Answer("upload_image", 201, Subject(request), name)
                        EXCEPT !.body = Asked(request)]
          /\ UNCHANGED <<BUCKET_NAME, docs, now, inflight>>
       \/ /\ status = 0
          /\ last' = [Answer("upload_image", 500, Subject(request), name)
                        EXCEPT !.body = Asked(request)]
          /\ UNCHANGED <<BUCKET_NAME, blobs, docs, events, now, inflight>>

\* main.py's process_image_for_labels raises out of the handler: the
\* payload failures of the later revision, and "response" unbound in the
\* metadata literal when label_detection raised.
MainProcessRaises(data, vis) ==
    \/ ProcessRaises(data)
    \/ ~IsDirectoryMarker(data) /\ vis.raises

\* The metadata dict of main.py: no userId.
MainMetadata(data, vis, ts) ==
    TimeFields(data) @@
    [bucket |-> Get(data, "bucket"),
     fileName |-> data["name"],
     imageUri |-> ImageUri(BucketText(data), data["name"]),
     size |-> SizeOf(data),
     labels |-> LabelsData(vis),
     processedTimestamp |-> ts,
     visionApiError |-> VisionApiError(vis)]

\* main.py's process_image_for_labels on a delivery of event i; its
\* doc_ref.set(metadata) replaces the document.
MainProcessImageForLabels(i) ==
    /\ events[i].type = "finalized"
    /\ events[i].delivered < MaxDeliveries
    /\ LET data == events[i].data
       IN \/ /\ ProcessWrites(data)
             /\ \E vis \in VisionAnswers(blobs, data) :
                   /\ docs' = IF vis.raises THEN docs
                              ELSE ReplaceSet(docs, DocId(data["name"]),
                                              MainMetadata(data, vis, now))
                   /\ last' = [Answer("process_image_for_labels", 0, None,
                                      data["name"])
                                 EXCEPT !.raised = MainProcessRaises(data, vis),
                                        !.body = [data |-> data, vis |-> vis,
                                                  saved |-> ~vis.raises]]
                   /\ events' = Handled(i, ~vis.raises)
          \/ /\ ProcessWrites(data)
             /\ docs' = docs
             /\ last' = [Answer("process_image_for_labels", 0, None, data["name"])
                           EXCEPT !.body = [saved |-> FALSE]]
             /\ events' = Handled(i, FALSE)
          \/ /\ ~ProcessWrites(data)
             /\ docs' = docs
             /\ last' = [Answer("process_image_for_labels", 0, None,
                                Get(data, "name"))
                           EXCEPT !.raised = ProcessRaises(data)]
             /\ events' = Handled(i, ~ProcessRaises(data))
    /\ UNCHANGED <<BUCKET_NAME, blobs, now, inflight>>

NextMain ==
    \/ Tick
    \/ \E request \in UploadRequests : MainUploadImage(request)
    \/ \E i \in 1..Len(events) : MainProcessImageForLabels(i)

SpecMain == Init /\ [][NextMain]_vars

\* main.py's two storage-triggered handlers on the payloads and documents
\* they can meet; its delete_image_metadata is that of the later revision.
NextMainHandlers ==
    \/ Tick
    \/ \E i \in 1..Len(events) : MainProcessImageForLabels(i)
    \/ \E i \in 1..Len(events) : DeleteImageMetadata(i)

SpecMainHandlers == InitHandlers /\ [][NextMainHandlers]_vars

\* ------------------------------------------------------------------------
\* Properties of the HTTP functions
\* ------------------------------------------------------------------------

\* The step of delete_image that reads the document and compares its
\* userId with the caller: it refuses (no call is left in flight) or goes
\* on to blob.exists().
DeleteImageChecks ==
    /\ last'.op = "delete_image"
    /\ last'.user # None
    /\ \/ inflight' = inflight
       \/ \E call \in inflight' \ inflight : call.pc = "exists"

NonOwnerDeleteRefused ==
    [][(/\ DeleteImageChecks
        /\ DocId(last'.name) \in DOMAIN docs
        /\ Get(docs[DocId(last'.name)], "userId") # last'.user)
         => /\ last'.status = 403
            /\ UNCHANGED <<blobs, docs, events, inflight>>]_vars

\* delete_image has refused a verified caller a document without userId.
UnownedDeleteRefused ==
    /\ last.op = "delete_image"
    /\ last.status = 403
    /\ last.user \in Users
    /\ DocId(last.name) \in DOMAIN docs
    /\ "userId" \notin DOMAIN docs[DocId(last.name)]
    /\ last.name \in DOMAIN blobs

\* C8: when get_image_metadata has answered a subject about a document
\* whose userId is not that subject's id, the answer is 403 and carries
\* neither the document nor a signed URL.
NonOwnerGetForbidden ==
    (/\ last.op = "get_image_metadata"
     /\ last.name \in DOMAIN docs
     /\ Get(docs[last.name], "userId") # last.user)
        => last.status = 403 /\ last.body = <<>>

\* C9 as the specification words it: a POST with a valid credential and a
\* file, to an upload_image whose bucket is configured, is answered 415
\* when the file's mimetype is outside ALLOWED_IMAGE_TYPES and is accepted
\* (201, or the 500 of a failed write) when it is inside.
AllowListDecides ==
    (/\ last.op = "upload_image"
     /\ BUCKET_NAME # <<>>
     /\ last.user # None
     /\ "mimetype" \in DOMAIN last.body
     /\ last.body["method"] = "POST")
        => IF last.body["mimetype"] \in ALLOWED_IMAGE_TYPES
           THEN last.status \in {201, 500}
           ELSE last.status = 415

\* C10: a POST to a configured upload_image without a valid credential is
\* answered 401 whatever its files, and a step of upload_image that answers
\* 401, 400 or 415 changes neither the bucket nor the documents (nor the
\* events or the calls in flight).
RejectedUploadChangesNothing ==
    /\ [](\A request \in UploadRequests :
            (/\ request.method = "POST"
             /\ BUCKET_NAME # <<>>
             /\ Unauthorized(request))
                => UploadRejection(request, BUCKET_NAME) = 401)
    /\ [][(last'.op = "upload_image" /\ last'.status \in {401, 400, 415})
            => UNCHANGED <<blobs, docs, events, inflight>>]_vars

\* upload_image has answered 401 while the bucket holds an object and a
\* document.
UploadRefusedUnauthorized ==
    /\ last.op = "upload_image"
    /\ last.status = 401
    /\ \E request \in UploadRequests :
          /\ UploadRejection(request, BUCKET_NAME) = 401
          /\ ~NoImage(request)
          /\ request.files["image"].mimetype \notin ALLOWED_IMAGE_TYPES
    /\ blobs # <<>>
    /\ docs # <<>>

UploadsPrefix == <<"u", "p", "l", "o", "a", "d", "s", "/">>

\* The number of finalized events emitted for the object name.
WritesOf(name) ==
    Cardinality({ i \in 1..Len(events) :
                    events[i].type = "finalized" /\ events[i].data["name"] = name })

\* C11 as the specification words it: whenever upload_image has answered
\* 201, the object exists under uploads/ with the caller as its userId and
\* the document of that path exists with the caller as its userId.
CreatedMeansBothStored ==
    (last.op = "upload_image" /\ last.status = 201)
        => /\ last.name \in DOMAIN blobs
           /\ SubSeq(last.name, 1, Len(UploadsPrefix)) = UploadsPrefix
           /\ blobs[last.name].metadata["userId"] = last.user
           /\ DocId(last.name) \in DOMAIN docs
           /\ docs[DocId(last.name)]["userId"] = last.user

\* C11 as the code has it: upload_image answers 201 only on the step where
\* its stub write goes through, after its own object write and patch went
\* through (an object was finalized under uploads/ for that path); the
\* document of the path is then the caller's stub. The object is there
\* unless a delete_image removed it meanwhile, and carries the caller's
\* userId unless another upload wrote the same path. A request that ends
\* after its checks without 201 ends with 500, and its stub write changed
\* no document.
CreatedMeansOwnWritesDone ==
    [][(last'.op = "upload_image" /\ inflight' # inflight
            /\ inflight' \subseteq inflight)
         => /\ last'.status \in {201, 500}
            /\ last'.status = 500 => docs' = docs
            /\ last'.status = 201 =>
                 /\ [op |-> "upload_image", pc |-> "set",
                     user |-> last'.user, name |-> last'.name] \in inflight
                 /\ SubSeq(last'.name, 1, Len(UploadsPrefix)) = UploadsPrefix
                 /\ WritesOf(last'.name) >= 1
                 /\ DocId(last'.name) \in DOMAIN docs'
                 /\ docs'[DocId(last'.name)]
                      = UploadStub(BUCKET_NAME, last'.name, last'.user, now)
                 /\ (\A i \in 1..Len(events) :
                        ~(events[i].type = "deleted"
                          /\ events[i].data["name"] = last'.name))
                      => last'.name \in DOMAIN blobs'
                 /\ (last'.name \in DOMAIN blobs' /\ WritesOf(last'.name) = 1)
                      => blobs'[last'.name].metadata["userId"] = last'.user]_vars

\* upload_image has answered 201 to alice, and the object and the stub of
\* its path are both stored as hers.
UploadCreated ==
    /\ last.op = "upload_image"
    /\ last.status = 201
    /\ last.user = <<"alice">>
    /\ last.name \in DOMAIN blobs
    /\ blobs[last.name].metadata["userId"] = <<"alice">>
    /\ DocId(last.name) \in DOMAIN docs
    /\ docs[DocId(last.name)] = UploadStub(BUCKET_NAME, last.name, <<"alice">>, now)

\* ------------------------------------------------------------------------
\* Properties of the pipeline
\* ------------------------------------------------------------------------

\* No request is between two of its calls, and every storage event emitted
\* has been handled at least once by a delivery whose store call went
\* through.
Quiescent ==
    /\ inflight = {}
    /\ \A i \in 1..Len(events) :
          events[i].delivered >= 1 /\ events[i].landed

StubFields == {"userId", "uploadedTimestamp", "bucket", "fileName", "imageUri"}

EnrichmentFields == {"labels", "size", "processedTimestamp"}

\* C2 as the specification words it: for an object uploaded once and never
\* deleted, once the finalize handler's write has landed and the stub write
\* has landed (the document carries uploadedTimestamp), the document holds
\* the stub fields and the enrichment fields alike.
StubAndEnrichmentBothSurvive ==
    \A id \in DOMAIN docs :
        (/\ Len(events) = 1
         /\ events[1].type = "finalized"
         /\ events[1].landed
         /\ DocId(events[1].data["name"]) = id
         /\ "uploadedTimestamp" \in DOMAIN docs[id])
            => (StubFields \cup EnrichmentFields) \subseteq DOMAIN docs[id]

\* C5 as the specification words it: in a quiescent state every document
\* of image_metadata is the document of an object the bucket holds.
NoDocumentWithoutObject ==
    Quiescent =>
        \A id \in DOMAIN docs : \E name \in DOMAIN blobs : DocId(name) = id

\* ------------------------------------------------------------------------
\* Properties of the storage-triggered handlers
\* ------------------------------------------------------------------------

\* Event i carries a payload its handler acts on.
WellFormed(i) ==
    IF events[i].type = "finalized" THEN ProcessWrites(events[i].data)
    ELSE ~DeleteSkips(events[i].data)

\* C1 as the specification words it: once every event of a path has been
\* handled, in whatever order, the path has no document when its last event
\* is a delete, and a document with the enrichment fields when its last
\* event is a finalize.
HandlersConverge ==
    Quiescent =>
        \A name \in { Get(events[i].data, "name") : i \in 1..Len(events) } :
            (\A i \in EventsOf(events, name) : WellFormed(i))
                => IF LastEventOf(events, name).type = "deleted"
                   THEN DocId(name) \notin DOMAIN docs
                   ELSE /\ DocId(name) \in DOMAIN docs
                        /\ EnrichmentFields \subseteq DOMAIN docs[DocId(name)]

\* doc without its processedTimestamp.
WithoutProcessed(doc) == Without(doc, "processedTimestamp")

\* C3: a run of process_image_for_labels that follows a run on the same
\* payload, with the same answers from label detection and from the blob's
\* metadata, both runs saving, leaves the document as the first run left
\* it in every field but processedTimestamp.
EnrichmentIdempotent ==
    [][(/\ last.op = "process_image_for_labels"
        /\ last'.op = "process_image_for_labels"
        /\ events' # events
        /\ last'.body = last.body
        /\ "saved" \in DOMAIN last'.body
        /\ last'.body.saved)
         => /\ DocId(last'.name) \in DOMAIN docs
            /\ DocId(last'.name) \in DOMAIN docs'
            /\ WithoutProcessed(docs'[DocId(last'.name)])
                 = WithoutProcessed(docs[DocId(last'.name)])]_vars

\* A finalize event has been handled twice, a second apart, on top of the
\* stub, and the document carries the labels and the later timestamp.
EnrichedTwice ==
    /\ last.op = "process_image_for_labels"
    /\ "saved" \in DOMAIN last.body
    /\ last.body.saved
    /\ last.body.vis = VisionLabels
    /\ \E i \in 1..Len(events) :
          events[i].delivered = 2 /\ events[i].data = last.body.data
    /\ now = 1
    /\ DocId(last.name) \in DOMAIN docs
    /\ docs[DocId(last.name)]["processedTimestamp"] = 1
    /\ "uploadedTimestamp" \in DOMAIN docs[DocId(last.name)]
    /\ Len(docs[DocId(last.name)]["labels"]) = 2

\* C4: a run of delete_image_metadata that finds no document for its path
\* raises nothing and leaves no document for it, whatever doc_ref.delete()
\* answers (NotFound included).
DeleteTwiceHarmless ==
    [][(/\ last'.op = "delete_image_metadata"
        /\ events' # events
        /\ DocId(last'.name) \notin DOMAIN docs)
         => /\ ~last'.raised
            /\ DocId(last'.name) \notin DOMAIN docs']_vars

\* A delete event has been handled twice and the second run, finding no
\* document, met NotFound.
DeletedTwice ==
    /\ last.op = "delete_image_metadata"
    /\ "outcome" \in DOMAIN last.body
    /\ last.body.outcome = "NotFound"
    /\ \E i \in 1..Len(events) :
          /\ events[i].type = "deleted"
          /\ events[i].delivered = 2
          /\ events[i].landed
          /\ events[i].data["name"] = last.name
    /\ DocId(last.name) \notin DOMAIN docs

\* The position in the response of the annotation a stored label came from.
PositionOf(label, response) ==
    CHOOSE i \in 1..Len(response) :
        response[i].description = label.description

\* Annotation a of the response, at position i, has to come before
\* annotation b, at position j: higher topicality, or equal topicality and
\* higher score, or both equal and earlier in the response.
ComesBefore(a, i, b, j) ==
    \/ a.topicality > b.topicality
    \/ a.topicality = b.topicality /\ a.score > b.score
    \/ a.topicality = b.topicality /\ a.score = b.score /\ i < j

\* C12: when process_image_for_labels has saved the labels of a response of
\* n annotations, the stored sequence has min(4, n) entries, each the
\* (description, score, topicality) of one annotation, in descending order
\* of topicality, then of score, then in the order of the response, and no
\* annotation left out comes before one that is stored.
LabelsRanked ==
    (/\ last.op = "process_image_for_labels"
     /\ "saved" \in DOMAIN last.body
     /\ last.body.saved
     /\ ~last.body.vis.raises)
        => LET response == last.body.vis.labels
               stored == docs[DocId(last.name)]["labels"]
               from == [k \in 1..Len(stored) |-> PositionOf(stored[k], response)]
           IN /\ Len(stored) = IF Len(response) < 4 THEN Len(response) ELSE 4
              /\ \A k \in 1..Len(stored) :
                    /\ \E i \in 1..Len(response) :
                          response[i].description = stored[k].description
                    /\ stored[k] = response[from[k]]
              /\ \A j, k \in 1..Len(stored) :
                    j < k => ComesBefore(stored[j], from[j], stored[k], from[k])
              /\ \A i \in 1..Len(response) :
                    (\A k \in 1..Len(stored) : from[k] # i)
                        => \A k \in 1..Len(stored) :
                              ~ComesBefore(response[i], i, stored[k], from[k])

\* Five annotations, the last of them of the highest rank and the first
\* two tied, have been cut to four with the ties in their given order.
FiveLabelsCut ==
    /\ last.op = "process_image_for_labels"
    /\ "saved" \in DOMAIN last.body
    /\ last.body.saved
    /\ last.body.vis.labels =
         <<LabelAt(1, 8, 9), LabelAt(2, 8, 9), LabelAt(3, 8, 8),
           LabelAt(4, 9, 8), LabelAt(5, 9, 9)>>
    /\ docs[DocId(last.name)]["labels"] =
         <<LabelAt(5, 9, 9), LabelAt(4, 9, 8), LabelAt(1, 8, 9), LabelAt(2, 8, 9)>>

\* Event i is being delivered to its handler in this step.
Delivering(i) == events'[i].delivered # events[i].delivered

\* C13: a delivery of an event whose object name ends with "/" leaves both
\* stores as they are, asks neither label detection nor the bucket (the
\* step records no answer of a collaborator) and raises nothing; so for
\* process_image_for_labels and for delete_image_metadata.
DirectoryMarkerIgnored ==
    [][\A i \in 1..Len(events) :
          (/\ Delivering(i)
           /\ "name" \in DOMAIN events[i].data
           /\ EndsWith(events[i].data["name"], "/"))
              => /\ docs' = docs
                 /\ blobs' = blobs
                 /\ last'.op = (IF events[i].type = "finalized"
                                THEN "process_image_for_labels"
                                ELSE "delete_image_metadata")
                 /\ ~last'.raised
                 /\ last'.body = <<>>
                 /\ events'[i].landed]_vars

\* A finalize of "uploads/" has been processed while a document was stored.
DirectoryMarkerProcessed ==
    /\ last.op = "process_image_for_labels"
    /\ last.name = UploadsPrefix
    /\ docs # <<>>
    /\ \E i \in 1..Len(events) :
          /\ events[i].type = "finalized"
          /\ events[i].data["name"] = UploadsPrefix
          /\ events[i].delivered > 0

\* The object path with every "/" turned into "_", position by position.
Underscored(path) ==
    [k \in 1..Len(path) |-> IF path[k] = "/" THEN "_" ELSE path[k]]

\* C14: the four functions address the document of a path by the same id,
\* the path with every "/" replaced by "_": a step that creates, changes or
\* removes a document is a step of upload_image, process_image_for_labels
\* or delete_image_metadata on a path whose underscored form is that
\* document's id, and delete_image goes on to the bucket only when the
\* document at the underscored path exists.
SameDocumentIdEverywhere ==
    [][LET touched == { id \in DOMAIN docs \cup DOMAIN docs' :
                          \/ id \notin DOMAIN docs
                          \/ id \notin DOMAIN docs'
                          \/ docs'[id] # docs[id] }
           entered == /\ last'.op = "delete_image"
                      /\ inflight \subseteq inflight'
                      /\ inflight' # inflight
       IN /\ \A id \in touched :
               /\ last'.op \in {"upload_image", "process_image_for_labels",
                                "delete_image_metadata"}
               /\ id = Underscored(last'.name)
          /\ entered => Underscored(last'.name) \in DOMAIN docs]_vars

\* One path has gone through all four functions: uploaded, enriched,
\* deleted by its owner, and its document removed by the delete event.
PathThroughAllFour ==
    /\ last.op = "delete_image_metadata"
    /\ last.body = [outcome |-> "deleted"]
    /\ Underscored(last.name) \notin DOMAIN docs
    /\ \E i \in 1..Len(events) :
          /\ events[i].type = "finalized"
          /\ events[i].data["name"] = last.name
          /\ events[i].landed

\* C15: when label detection failed, by raising or by a response that
\* carries an error, and process_image_for_labels has saved its document,
\* the document has no labels and its visionApiError is the message of
\* the failure.
VisionFailureRecorded ==
    (/\ last.op = "process_image_for_labels"
     /\ "vis" \in DOMAIN last.body
     /\ last.body.saved
     /\ (last.body.vis.raises \/ last.body.vis.error # <<>>))
        => /\ DocId(last.name) \in DOMAIN docs
           /\ docs[DocId(last.name)]["labels"] = <<>>
           /\ docs[DocId(last.name)]["visionApiError"] = last.body.vis.error

\* C16: whatever the payload of the event and whatever call fails, a
\* delivery to process_image_for_labels or delete_image_metadata ends
\* without an exception, and a delivery whose store call failed leaves the
\* documents as they were.
HandlersReturnNormally ==
    [][\A i \in 1..Len(events) :
          Delivering(i)
              => /\ ~last'.raised
                 /\ ~events'[i].landed => docs' = docs]_vars

\* C17: the listing get_images_metadata answers to a verified subject has
\* one entry for each document whose userId is the subject and whose
\* fileName and bucket are present, and no other entry: nothing of another
\* subject, nothing without userId, and the documents without fileName or
\* bucket are left out while the rest is listed.
ListingIsOwnCompleteDocuments ==
    (last.op = "get_images_metadata" /\ last.status = 200 /\ last.user \in Users)
        => LET own == { id \in DOMAIN docs :
                          /\ "userId" \in DOMAIN docs[id]
                          /\ docs[id]["userId"] = last.user
                          /\ "fileName" \in DOMAIN docs[id]
                          /\ docs[id]["fileName"] \notin {None, <<>>}
                          /\ "bucket" \in DOMAIN docs[id]
                          /\ docs[id]["bucket"] \notin {None, <<>>} }
           IN /\ { e.id : e \in last.body.images } = own
              /\ Cardinality(last.body.images) = Cardinality(own)
              /\ \A e \in last.body.images :
                    e.fileName = docs[e.id]["fileName"]

\* alice lists her pictures while the collection holds a document of hers,
\* one without userId and one of hers without bucket: the answer has her
\* complete document alone.
AliceListsHerOwn ==
    /\ last.op = "get_images_metadata"
    /\ last.status = 200
    /\ last.user = <<"alice">>
    /\ Cardinality(last.body.images) = 1
    /\ DocId(Stray) \in DOMAIN docs
    /\ "userId" \notin DOMAIN docs[DocId(Stray)]
    /\ DocId(Older) \in DOMAIN docs
    /\ docs[DocId(Older)]["userId"] = <<"alice">>
    /\ docs[DocId(Older)]["bucket"] = None
    /\ \E e \in last.body.images :
          /\ e.id \notin {DocId(Stray), DocId(Older)}
          /\ docs[e.id]["userId"] = <<"alice">>

\* C18: whatever is already gone of her picture, the object or the
\* document, delete_image by the uploader never answers that path with a
\* refusal: apart from the 500 of a failed call, every answer is the 200.
OwnerDeleteAlwaysSucceeds ==
    (/\ last.op = "delete_image"
     /\ last.user = <<"alice">>
     /\ last.name = Obj
     /\ last.status \notin {0, 500})
        => last.status = 200

\* C19: two objects upload_image stored within the modelled second under
\* distinct supplied file names lie at distinct paths and have distinct
\* document ids.
DistinctNamesDistinctPaths ==
    \A i, j \in 1..Len(events) :
        (/\ i # j
         /\ events[i].type = "finalized"
         /\ events[j].type = "finalized"
         /\ events[i].supplied # events[j].supplied)
            => /\ events[i].data["name"] # events[j].data["name"]
               /\ DocId(events[i].data["name"]) # DocId(events[j].data["name"])

\* C20: an OPTIONS request to a wrapped function is answered with 200 and
\* the allow-origin, allow-methods and allow-headers headers, for no
\* subject and with every store and every call in flight left as it was;
\* and every answer of a wrapped function to any other request carries
\* Access-Control-Allow-Origin.
PreflightDirectAndOriginEverywhere ==
    [][/\ (last'.op \in WrappedEndpoints /\ last'.body = [method |-> "OPTIONS"])
            => /\ last'.status = 200
               /\ {"Access-Control-Allow-Origin", "Access-Control-Allow-Methods",
                    "Access-Control-Allow-Headers"} \subseteq DOMAIN last'.headers
               /\ last'.user = None
               /\ UNCHANGED <<blobs, docs, events, inflight>>
       /\ (last'.op \in WrappedEndpoints /\ last'.status # 0)
            => "Access-Control-Allow-Origin" \in DOMAIN last'.headers]_vars

\* upload_image has answered a preflight while an upload was under way.
PreflightAnswered ==
    /\ last.op = "upload_image"
    /\ last.body = [method |-> "OPTIONS"]
    /\ last.status = 200
    /\ last.headers["Access-Control-Allow-Methods"] = <<"GET, POST, DELETE, OPTIONS">>
    /\ inflight # {}

\* The fields every pass of process_image_for_labels computes.
AlwaysComputed ==
    {"bucket", "fileName", "imageUri", "size", "labels",
     "processedTimestamp", "visionApiError"}

\* C21: a saving pass of process_image_for_labels over an existing document
\* keeps every field the document had, and leaves unchanged each field it
\* did not compute: all but the seven of every pass, the two timestamps of
\* the event, and userId when the blob's metadata gave one.
EnrichmentKeepsOtherFields ==
    [][(/\ last'.op = "process_image_for_labels"
        /\ events' # events
        /\ "saved" \in DOMAIN last'.body
        /\ last'.body.saved
        /\ DocId(last'.name) \in DOMAIN docs)
         => LET before == docs[DocId(last'.name)]
                after == docs'[DocId(last'.name)]
                resolved == IF /\ "userId" \in DOMAIN last'.body
                               /\ last'.body.userId # None
                            THEN {"userId"} ELSE {}
            IN \A k \in DOMAIN before :
                  /\ k \in DOMAIN after
                  /\ k \notin AlwaysComputed \cup {"timeCreated", "updated"}
                                \cup resolved
                       => after[k] = before[k]]_vars

\* C22: a saving pass of process_image_for_labels treats timeCreated and
\* updated each on its own: a value that parses is in the document after
\* the pass whatever the other field holds, and a value that does not
\* parse adds no such field to the document.
TimestampsIndependent ==
    [][(/\ last'.op = "process_image_for_labels"
        /\ events' # events
        /\ "saved" \in DOMAIN last'.body
        /\ last'.body.saved)
         => LET data == last'.body.data
                after == docs'[DocId(last'.name)]
            IN \A f \in {"timeCreated", "updated"} :
                  IF Truthy(Get(data, f)) /\ IsoParses(NormalizeZ(data[f]))
                  THEN /\ f \in DOMAIN after
                       /\ after[f] = FromIsoFormat(NormalizeZ(data[f]))
                  ELSE (DocId(last'.name) \notin DOMAIN docs
                        \/ f \notin DOMAIN docs[DocId(last'.name)])
                           => f \notin DOMAIN after]_vars

\* The payload lacks its bucket or its object name, or holds an empty one.
Malformed(data) ==
    \/ "bucket" \notin DOMAIN data
    \/ data["bucket"] = <<>>
    \/ "name" \notin DOMAIN data
    \/ data["name"] = <<>>

\* C23: a delivery of a delete event whose bucket or object name is
\* missing or empty to delete_image_metadata leaves every document as it
\* is, asks nothing of the document store (the step records no outcome of
\* a delete) and raises nothing.
MalformedDeleteIgnored ==
    [][\A i \in 1..Len(events) :
          (/\ Delivering(i)
           /\ events[i].type = "deleted"
           /\ Malformed(events[i].data))
              => /\ last'.op = "delete_image_metadata"
                 /\ docs' = docs
                 /\ last'.body = <<>>
                 /\ ~last'.raised
                 /\ events'[i].landed]_vars

\* A delete event without bucket has been handled and the document of the
\* object is still there.
BucketlessDeleteHandled ==
    /\ last.op = "delete_image_metadata"
    /\ DocId(Obj) \in DOMAIN docs
    /\ \E i \in 1..Len(events) :
          /\ events[i].type = "deleted"
          /\ events[i].delivered > 0
          /\ "bucket" \notin DOMAIN events[i].data
          /\ events[i].data["name"] = Obj

\* C24: when the signing of a URL raised, get_images_metadata answers 200
\* with an entry for every complete document of the subject, signedUrl
\* None for those whose signing raised and a URL for the others, and
\* get_image_metadata answers 200 with the whole document, its id and
\* signedUrl None.
SigningFailureGivesNullUrl ==
    /\ (last.op = "get_images_metadata" /\ last.unsigned # {})
         => /\ last.status = 200
            /\ \A id \in DOMAIN docs :
                  (/\ Get(docs[id], "userId") = last.user
                   /\ Get(docs[id], "fileName") \notin {None, <<>>}
                   /\ Get(docs[id], "bucket") \notin {None, <<>>})
                     => \E e \in last.body.images :
                           /\ e.id = id
                           /\ (e.signedUrl = None) = (id \in last.unsigned)
    /\ (last.op = "get_image_metadata" /\ last.unsigned # {})
         => /\ last.status = 200
            /\ last.body["signedUrl"] = None
            /\ last.body["id"] = last.name
            /\ \A k \in DOMAIN docs[last.name] :
                  last.body[k] = docs[last.name][k]

\* alice's listing has both her pictures, one with a URL and one without.
OneOfTwoUnsigned ==
    /\ last.op = "get_images_metadata"
    /\ last.user = <<"alice">>
    /\ last.unsigned = {DocId(Obj)}
    /\ Cardinality(last.body.images) = 2
    /\ \E e \in last.body.images : e.id = DocId(Second) /\ e.signedUrl # None

\* C28: a get_images_metadata request that lists at least one document,
\* every URL signed, has called utils.get_impersonated_credentials once.
CredentialObtainedOnce ==
    (/\ last.op = "get_images_metadata"
     /\ last.status = 200
     /\ last.user \in Users
     /\ last.unsigned = {}
     /\ last.body.images # {})
        => last.credentials = 1

\* C25: a pass of process_image_for_labels whose label detection failed,
\* over a document that holds labels, leaves those labels in the document.
FailedDetectionKeepsLabels ==
    [][(/\ last'.op = "process_image_for_labels"
        /\ events' # events
        /\ "vis" \in DOMAIN last'.body
        /\ (last'.body.vis.raises \/ last'.body.vis.error # <<>>)
        /\ DocId(last'.name) \in DOMAIN docs
        /\ "labels" \in DOMAIN docs[DocId(last'.name)]
        /\ docs[DocId(last'.name)]["labels"] # <<>>)
         => /\ DocId(last'.name) \in DOMAIN docs'
            /\ docs'[DocId(last'.name)]["labels"]
                 = docs[DocId(last'.name)]["labels"]]_vars

\* C26: after uploads and the handling of their finalize events, with no
\* delete, in a quiescent state the userId of each stored object's
\* document is the userId in that object's blob metadata.
DocumentOwnerIsBlobOwner ==
    (/\ Quiescent
     /\ \A i \in 1..Len(events) : events[i].type = "finalized")
        => \A name \in DOMAIN blobs :
              (/\ DocId(name) \in DOMAIN docs
               /\ "userId" \in DOMAIN docs[DocId(name)])
                  => docs[DocId(name)]["userId"] = blobs[name].metadata["userId"]

MaxAnnotations == 3

\* vision_client.text_detection(image=image): it raises, or it answers
\* with response.text_annotations, a list of annotations whose
\* descriptions are the full text of a picture or one of its words.
TextDetections ==
    LET descriptions == {<<"HELLO", "WORLD">>, <<"HELLO">>, <<"WORLD">>}
        annotations == UNION { [1..n -> [description : descriptions]] :
                               n \in 0..MaxAnnotations }
    IN {[raises |-> TRUE, text_annotations |-> <<>>]} \cup
       { [raises |-> FALSE, text_annotations |-> texts] : texts \in annotations }

\* perform_ocr returning the description of the last annotation.
perform_ocr_last_annotation(bucket_name, file_name, response) ==
    LET texts == response.text_annotations
    IN [image_uri |-> ImageUri(bucket_name, file_name),
        raised |-> FALSE,
        text |-> IF response.raises THEN <<>>
                 ELSE IF texts # <<>> THEN texts[Len(texts)].description
                 ELSE <<>>]

\* perform_ocr: text starts as ""; inside the try the first annotation's
\* description replaces it when the list is not empty; the except prints
\* and falls through to the return.
perform_ocr(bucket_name, file_name, response) ==
    LET texts == response.text_annotations
    IN [image_uri |-> ImageUri(bucket_name, file_name),
        raised |-> FALSE,
        text |-> IF response.raises THEN <<>>
                 ELSE IF texts # <<>> THEN texts[1].description
                 ELSE <<>>]

\* The pictures handed to perform_ocr and what the text detection will
\* answer for them.
InitOcr ==
    /\ BUCKET_NAME = Photos
    /\ blobs = <<>>
    /\ docs = <<>>
    /\ events = <<>>
    /\ now = 0
    /\ inflight = {}
    /\ \E file_name \in {Obj, Second}, response \in TextDetections :
          last = [Answer("text_detection", 0, None, file_name)
                    EXCEPT !.body = response]

PerformOcr ==
    /\ last.op = "text_detection"
    /\ LET returned == perform_ocr(BUCKET_NAME, last.name, last.body)
       IN last' = [Answer("perform_ocr", 0, None, last.name)
                     EXCEPT !.raised = returned.raised,
                            !.body = [response |-> last.body,
                                      image_uri |-> returned.image_uri,
                                      text |-> returned.text]]
    /\ UNCHANGED <<BUCKET_NAME, blobs, docs, events, now, inflight>>

SpecOcr == InitOcr /\ [][PerformOcr]_vars

\* C29: perform_ocr does not raise; it returns the description of the
\* first annotation when the text detection answered with at least one,
\* and the empty string when it answered with none or raised.
OcrReturnsFirstDescription ==
    last.op = "perform_ocr"
        => /\ ~last.raised
           /\ (/\ ~last.body.response.raises
               /\ Len(last.body.response.text_annotations) >= 1)
                => last.body.text
                     = Head(last.body.response.text_annotations).description
           /\ (\/ last.body.response.raises
               \/ Len(last.body.response.text_annotations) = 0)
                => last.body.text = <<>>

\* C29 witness: three annotations, the full text first and a word last;
\* the full text is returned.
FullTextReturned ==
    /\ last.op = "perform_ocr"
    /\ Len(last.body.response.text_annotations) = 3
    /\ last.body.response.text_annotations[1].description = <<"HELLO", "WORLD">>
    /\ last.body.response.text_annotations[3].description = <<"WORLD">>
    /\ last.body.text = <<"HELLO", "WORLD">>

====
